---- MODULE Spec2Model ----
(***************************************************************************)
(* Model of the Qualifire guardrail webhook (app.py): the policy loader    *)
(* (load_guardrails / _use_fallbacks), the /health, /reload and /guardrail *)
(* handlers, the verdict classifier and the block-message resolver         *)
(* (_get_block_message).                                                   *)
(*                                                                         *)
(* JSON objects (Python dicts) are TLA+ records whose DOMAIN is the set of *)
(* keys that are present; dict.get(k, d) is Get(d, k, default).  Python    *)
(* strings are TLA+ strings, handled character by character.  The dict     *)
(* DEFAULT_RESPONSES keeps insertion order, so it is a sequence of         *)
(* [k, v] records.                                                         *)
(***************************************************************************)
EXTENDS Integers, Sequences, FiniteSets, TLC

VARIABLES
    \* module globals of app.py (lines 15-18)
    ASSERTIONS, DEFAULT_RESPONSES, PROMPT_INJECTION_RESPONSE, GUARDRAILS_SOURCE,
    \* process configuration (line 10)
    WEBHOOK_SECRET,
    \* history of the loads run so far: <<[outcome, table]>>, oldest first
    loadLog,
    \* the last /guardrail request handled and the response it received
    lastReq, lastResp,
    \* what the last /health call reported
    healthSeen,
    \* the loader thread of the interleaved specification
    loader,
    \* the request thread of the interleaved specification
    inflight

vars == <<ASSERTIONS, DEFAULT_RESPONSES, PROMPT_INJECTION_RESPONSE,
          GUARDRAILS_SOURCE, WEBHOOK_SECRET, loadLog, lastReq, lastResp,
          healthSeen, loader, inflight>>

(***************************************************************************)
(* Bounds of the model.                                                    *)
(***************************************************************************)
\* number of /reload calls after the start-up load
MaxReloads == 2
\* number of /reload calls behind the table a /guardrail request is served on
MaxPriorReloads == 1
\* number of /reload calls that run beside the readers
MaxConcurrentReloads == 1

(***************************************************************************)
(* Python string operations.                                               *)
(***************************************************************************)
LowerMap ==
    [c \in {"A","B","C","D","E","F","G","H","I","J","K","L","M",
            "N","O","P","Q","R","S","T","U","V","W","X","Y","Z"} |->
        CASE c = "A" -> "a" [] c = "B" -> "b" [] c = "C" -> "c" [] c = "D" -> "d"
          [] c = "E" -> "e" [] c = "F" -> "f" [] c = "G" -> "g" [] c = "H" -> "h"
          [] c = "I" -> "i" [] c = "J" -> "j" [] c = "K" -> "k" [] c = "L" -> "l"
          [] c = "M" -> "m" [] c = "N" -> "n" [] c = "O" -> "o" [] c = "P" -> "p"
          [] c = "Q" -> "q" [] c = "R" -> "r" [] c = "S" -> "s" [] c = "T" -> "t"
          [] c = "U" -> "u" [] c = "V" -> "v" [] c = "W" -> "w" [] c = "X" -> "x"
          [] c = "Y" -> "y" [] c = "Z" -> "z"]

\* str.lower()
RECURSIVE Lower(_)
Lower(s) ==
    IF Len(s) = 0 THEN ""
    ELSE IF Len(s) = 1 THEN (IF s \in DOMAIN LowerMap THEN LowerMap[s] ELSE s)
    ELSE LET m == Len(s) \div 2
         IN  Lower(SubSeq(s, 1, m)) \o Lower(SubSeq(s, m + 1, Len(s)))

\* sub in s
Contains(sub, s) ==
    \/ Len(sub) = 0
    \/ \E i \in 1..(Len(s) - Len(sub) + 1) : SubSeq(s, i, i + Len(sub) - 1) = sub

\* s[:n]
Prefix(s, n) == IF Len(s) <= n THEN s ELSE SubSeq(s, 1, n)

DigitValue ==
    [c \in {"0","1","2","3","4","5","6","7","8","9"} |->
        CASE c = "0" -> 0 [] c = "1" -> 1 [] c = "2" -> 2 [] c = "3" -> 3
          [] c = "4" -> 4 [] c = "5" -> 5 [] c = "6" -> 6 [] c = "7" -> 7
          [] c = "8" -> 8 [] c = "9" -> 9]

\* "".join(filter(str.isdigit, s))
RECURSIVE FilterDigits(_)
FilterDigits(s) ==
    IF Len(s) = 0 THEN ""
    ELSE IF Len(s) = 1 THEN (IF s \in DOMAIN DigitValue THEN s ELSE "")
    ELSE LET m == Len(s) \div 2
         IN  FilterDigits(SubSeq(s, 1, m)) \o FilterDigits(SubSeq(s, m + 1, Len(s)))

\* int(d) for a non-empty string of digits
RECURSIVE ParseInt(_)
ParseInt(d) ==
    IF Len(d) = 1 THEN DigitValue[d]
    ELSE 10 * ParseInt(SubSeq(d, 1, Len(d) - 1)) + DigitValue[SubSeq(d, Len(d), Len(d))]

(***************************************************************************)
(* Python dict operations.                                                 *)
(***************************************************************************)
\* d.get(k, default) on a JSON object
Get(d, k, default) == IF k \in DOMAIN d THEN d[k] ELSE default

\* the empty dict {}
EmptyDict == <<>>

\* k in DEFAULT_RESPONSES
DictHas(d, k) == \E i \in 1..Len(d) : d[i].k = k

\* DEFAULT_RESPONSES[k]
DictGet(d, k) == d[CHOOSE i \in 1..Len(d) : d[i].k = k].v

\* DEFAULT_RESPONSES[k] = v: a present key keeps its place, a new key goes last
DictSet(d, k, v) ==
    IF DictHas(d, k)
    THEN [i \in 1..Len(d) |-> IF d[i].k = k THEN [k |-> k, v |-> v] ELSE d[i]]
    ELSE Append(d, [k |-> k, v |-> v])

DictKeys(d) == {d[i].k : i \in 1..Len(d)}
DictValues(d) == {d[i].v : i \in 1..Len(d)}

(***************************************************************************)
(* The Policy Table: the four module globals.                              *)
(***************************************************************************)
Table(a, r, p, s) ==
    [ASSERTIONS |-> a, DEFAULT_RESPONSES |-> r,
     PROMPT_INJECTION_RESPONSE |-> p, GUARDRAILS_SOURCE |-> s]

\* the globals right after their definition, before the start-up load
ModuleGlobals == Table(<<>>, <<>>, "", "none")

\* the globals as they are now
Globals ==
    Table(ASSERTIONS, DEFAULT_RESPONSES, PROMPT_INJECTION_RESPONSE, GUARDRAILS_SOURCE)

FALLBACK_ASSERTION_0 ==
    "The assistant must never provide personalized financial, legal, or tax advice including investment recommendations, stock/crypto/fund picks, portfolio allocation, legal strategy, contract interpretation, tax deductions, filing strategies, or audit responses."

FALLBACK_ASSERTION_1 ==
    "The assistant must never provide medical diagnoses, treatment plans, medication advice, or therapy techniques including interpreting symptoms, recommending dosages, suggesting medications or supplements, providing CBT/DBT/EMDR exercises, or diagnosing mental health conditions."

FALLBACK_PROMPT_INJECTION_RESPONSE ==
    "Nice try! I'm your productivity buddy and my focus is helping you get things done. I can't reveal my instructions or change how I work. What task can I help you tackle today?"

FALLBACK_RESPONSE_0 ==
    "I'm your productivity buddy, not a financial advisor, attorney, or tax professional! For investment decisions, legal questions, or tax strategies, please consult a licensed professional. What task can I help you organize today?"

FALLBACK_RESPONSE_1 ==
    "I'm your productivity buddy, not a healthcare provider! For medical symptoms, medication questions, or mental health support, please consult a doctor, therapist, or psychiatrist. For emergencies, call 911 or 988. What task can I help you organize today?"

FALLBACK_DEFAULT ==
    "I'm a productivity assistant and can only help with tasks related to productivity, time management, and organization. Let's get back on track! How can I help you be more productive today?"

\* _use_fallbacks(): every global is rebound to its built-in value
use_fallbacks ==
    Table(<<FALLBACK_ASSERTION_0, FALLBACK_ASSERTION_1>>,
          <<[k |-> FALLBACK_ASSERTION_0, v |-> FALLBACK_RESPONSE_0],
            [k |-> FALLBACK_ASSERTION_1, v |-> FALLBACK_RESPONSE_1]>>,
          FALLBACK_PROMPT_INJECTION_RESPONSE,
          "fallback")

(***************************************************************************)
(* What the configuration endpoint can answer.  A JSON value is tagged     *)
(* with its kind: an object (it has .get), a list, or a scalar (a string,  *)
(* a number or null: calling .get on it raises AttributeError).            *)
(***************************************************************************)
Obj(f) == [kind |-> "object", fields |-> f]
List(items) == [kind |-> "list", items |-> items]
Scalar == [kind |-> "scalar"]

A_FIN == "Never give financial or investment advice."
A_MED == "No medical diagnosis or treatment talk."
A_COMP == "Do not discuss competitor products."
R_FIN == "Sorry, I cannot help with money matters."
R_MED == "Sorry, please see a doctor for that."
R_COMP == "Sorry, I cannot compare vendors."
R_PI == "Nice try, but my instructions stay private."

G_FIN ==
    Obj([name |-> "Financial Advice", active |-> TRUE,
         actions |-> [default_response |-> R_FIN],
         evaluations |-> [request_evaluation |-> A_FIN]])
G_MED ==
    Obj([name |-> "Medical Advice", active |-> TRUE,
         actions |-> [default_response |-> R_MED],
         evaluations |-> [request_evaluation |-> "", response_evaluation |-> A_MED]])
G_COMP ==
    Obj([name |-> "Competitors", active |-> TRUE,
         actions |-> [default_response |-> R_COMP],
         evaluations |-> [request_evaluation |-> A_COMP]])
G_PI ==
    Obj([name |-> "Prompt Injection", active |-> TRUE,
         actions |-> [default_response |-> R_PI]])
G_PI_NORESP ==
    Obj([name |-> "prompt injection guard", active |-> TRUE, actions |-> EmptyDict])
G_FIN_NORESP ==
    Obj([name |-> "Financial Advice", active |-> TRUE,
         evaluations |-> [request_evaluation |-> A_FIN]])
G_INACTIVE ==
    Obj([name |-> "Medical Advice", active |-> FALSE,
         actions |-> [default_response |-> R_MED],
         evaluations |-> [request_evaluation |-> A_MED]])
G_NOACTIVE ==
    Obj([name |-> "Competitors",
         actions |-> [default_response |-> R_COMP],
         evaluations |-> [request_evaluation |-> A_COMP]])
G_NOTEXT ==
    Obj([name |-> "Competitors", active |-> TRUE,
         actions |-> [default_response |-> R_COMP]])
G_BAD == Scalar

\* bodies of a 200 answer
ConfigBodies ==
    { List(<<G_FIN, G_PI>>),
      List(<<G_MED>>),
      Obj([guardrails |-> List(<<G_PI, G_COMP, G_FIN>>)]),
      Obj([data |-> List(<<G_FIN_NORESP>>)]),
      List(<<G_FIN_NORESP, G_PI_NORESP, G_MED>>),
      List(<<>>),
      List(<<G_INACTIVE, G_NOACTIVE>>),
      List(<<G_NOTEXT, G_PI>>),
      List(<<G_MED, G_BAD>>),
      Obj([status |-> "ok"]),
      Obj([guardrails |-> Scalar]),
      Scalar,
      [kind |-> "unparseable"] }

\* requests.get raised (connection error, timeout), or an HTTP answer
FetchOutcomes ==
    { [kind |-> "exception"] }
    \cup { [kind |-> "http", status |-> 503, body |-> List(<<G_FIN, G_PI>>)] }
    \cup { [kind |-> "http", status |-> 200, body |-> b] : b \in ConfigBodies }

(***************************************************************************)
(* load_guardrails.                                                        *)
(***************************************************************************)
\* lines 53-56: both payload shapes become a list
NormalizeGuardrails(body) ==
    LET g1 == IF body.kind = "object"
              THEN Get(body.fields, "guardrails", Get(body.fields, "data", List(<<>>)))
              ELSE body
    IN  IF g1.kind # "list" THEN <<g1>> ELSE g1.items

\* lines 61-104: one turn of the loop "for g in guardrails", on the globals T.
\* The result says whether the turn raised.
ProcessGuardrail(T, g) ==
    IF g.kind # "object" THEN [raised |-> TRUE, table |-> T]
    ELSE
    LET f == g.fields
        name == Lower(Get(f, "name", ""))
        active == Get(f, "active", FALSE)
        actions == Get(f, "actions", EmptyDict)
        default_resp == Get(actions, "default_response", "")
        evals == Get(f, "evaluations", EmptyDict)
        req_eval == Get(evals, "request_evaluation", "")
        resp_eval == Get(evals, "response_evaluation", "")
        assertion_text == IF req_eval # "" THEN req_eval ELSE resp_eval
    IN  IF ~active THEN [raised |-> FALSE, table |-> T]
        ELSE IF Contains("prompt", name) /\ Contains("injection", name)
        THEN [raised |-> FALSE,
              table |-> IF default_resp # ""
                        THEN [T EXCEPT !.PROMPT_INJECTION_RESPONSE = default_resp]
                        ELSE T]
        ELSE IF assertion_text # ""
        THEN [raised |-> FALSE,
              table |-> [T EXCEPT
                  !.ASSERTIONS = Append(@, assertion_text),
                  !.DEFAULT_RESPONSES =
                      IF default_resp # "" THEN DictSet(@, assertion_text, default_resp)
                      ELSE @]]
        ELSE [raised |-> FALSE, table |-> T]

\* lines 60-104: the loop from entry i on; stops at the first turn that raises
RECURSIVE ProcessFrom(_, _, _)
ProcessFrom(T, guardrails, i) ==
    IF i > Len(guardrails) THEN [raised |-> FALSE, table |-> T]
    ELSE LET r == ProcessGuardrail(T, guardrails[i])
         IN  IF r.raised THEN r ELSE ProcessFrom(r.table, guardrails, i + 1)

\* lines 107-115: "Check if we got anything useful"
FinishLoad(T) ==
    IF T.ASSERTIONS # <<>> THEN [T EXCEPT !.GUARDRAILS_SOURCE = "api"]
    ELSE use_fallbacks

\* lines 32-115: the body of the try block; raised says an exception left it
TryLoad(T, outcome) ==
    IF outcome.kind = "exception" THEN [raised |-> TRUE, table |-> T]
    ELSE IF outcome.status # 200 THEN [raised |-> FALSE, table |-> use_fallbacks]
    ELSE IF outcome.body.kind = "unparseable" THEN [raised |-> TRUE, table |-> T]
    ELSE LET r == ProcessFrom(T, NormalizeGuardrails(outcome.body), 1)
         IN  IF r.raised THEN r ELSE [raised |-> FALSE, table |-> FinishLoad(r.table)]

\* ExceptLoad without the handler "except Exception"
ExceptLoad_Unhandled(r) == r

\* lines 33-56 end without an exception and without the early return of line 46
FetchGivesList(outcome) ==
    outcome.kind = "http" /\ outcome.status = 200 /\ outcome.body.kind # "unparseable"

\* lines 117-121: "except Exception": the mutated globals are replaced
ExceptLoad(r) ==
    IF r.raised THEN [raised |-> FALSE, table |-> use_fallbacks] ELSE r

\* load_guardrails() run on the globals T: the globals it leaves, and whether
\* an exception reached its caller
load_guardrails(T, outcome) == ExceptLoad(TryLoad(T, outcome))

(***************************************************************************)
(* _get_block_message.                                                     *)
(***************************************************************************)
NoMatch == [hit |-> FALSE]
Match(msg, source) == [hit |-> TRUE, msg |-> msg, source |-> source]

\* SubFails with "scoreVal <= 50" for "scoreVal < 50"
SubFails_Inclusive(sub) ==
    LET label == Lower(Get(sub, "label", ""))
        scoreVal == Get(sub, "score", 100)
    IN  label \in {"fail", "unsafe", "detected", "true"} \/ scoreVal <= 50

\* line 293: does the sub-result look failing
SubFails(sub) ==
    LET label == Lower(Get(sub, "label", ""))
        scoreVal == Get(sub, "score", 100)
    IN  label \in {"fail", "unsafe", "detected", "true"} \/ scoreVal < 50

\* InjectionMatch without the test "if PROMPT_INJECTION_RESPONSE"
InjectionMatch_Unchecked(T, rtype, name) ==
    IF Contains("injection", rtype) \/ Contains("injection", Lower(name))
    THEN Match(T.PROMPT_INJECTION_RESPONSE, "prompt_injection")
    ELSE NoMatch

\* InjectionMatch reading the entry's type only, not the sub-result's name
InjectionMatch_TypeOnly(T, rtype, name) ==
    IF Contains("injection", rtype) /\ T.PROMPT_INJECTION_RESPONSE # ""
    THEN Match(T.PROMPT_INJECTION_RESPONSE, "prompt_injection")
    ELSE NoMatch

\* lines 296-300: the prompt-injection branch
InjectionMatch(T, rtype, name) ==
    IF (Contains("injection", rtype) \/ Contains("injection", Lower(name)))
       /\ T.PROMPT_INJECTION_RESPONSE # ""
    THEN Match(T.PROMPT_INJECTION_RESPONSE, "prompt_injection")
    ELSE NoMatch

\* PolicyGate letting every type through
PolicyGate_Open(rtype) == TRUE

\* line 303: the gate of the policy branch
PolicyGate(rtype) == Contains("assertion", rtype) \/ Contains("policy", rtype)

\* lines 305-309: the first entry of DEFAULT_RESPONSES, in insertion order,
\* that the name matches either way
NameHit(name, assertion) == name # "" /\ Contains(Lower(name), Lower(assertion))
PrefixHit(name, assertion) == Contains(Lower(Prefix(assertion, 30)), Lower(name))

NameMatch(T, name) ==
    LET d == T.DEFAULT_RESPONSES
        hits == {i \in 1..Len(d) : NameHit(name, d[i].k) \/ PrefixHit(name, d[i].k)}
    IN  IF hits = {} THEN NoMatch
        ELSE LET i == CHOOSE j \in hits : \A k \in hits : j <= k
             IN  Match(d[i].v, IF NameHit(name, d[i].k) THEN "assertion_name_match"
                               ELSE "assertion_prefix_match")

\* line 313: int("".join(filter(str.isdigit, name))) - 1; -1 stands for the
\* ValueError of an empty digit string, which is no valid index either
NameIndex(name) ==
    LET digits == FilterDigits(name)
    IN  IF digits = "" THEN -1 ELSE ParseInt(digits) - 1

\* lines 312-317: ASSERTIONS[idx], when it has a response
IndexMatch(T, name) ==
    LET idx == NameIndex(name)
    IN  IF FilterDigits(name) # "" /\ 0 <= idx /\ idx < Len(T.ASSERTIONS)
           /\ DictHas(T.DEFAULT_RESPONSES, T.ASSERTIONS[idx + 1])
        THEN [hit |-> TRUE, msg |-> DictGet(T.DEFAULT_RESPONSES, T.ASSERTIONS[idx + 1]),
              source |-> "assertion_index", idx |-> idx]
        ELSE NoMatch

\* FinancialKeywords without "invest"
FinancialKeywords_NoInvest == {"financial", "legal", "tax"}

FinancialKeywords == {"financial", "invest", "legal", "tax"}
MedicalKeywords == {"medical", "diagnos", "medication", "therapy"}

KeywordFinancialHit(reason, assertion) ==
    /\ \E kw \in FinancialKeywords : Contains(kw, reason)
    /\ Contains("financial", Lower(assertion)) \/ Contains("legal", Lower(assertion))
KeywordMedicalHit(reason, assertion) ==
    /\ \E kw \in MedicalKeywords : Contains(kw, reason)
    /\ Contains("medical", Lower(assertion)) \/ Contains("diagnos", Lower(assertion))

\* lines 320-328: keywords of the reason against each entry of DEFAULT_RESPONSES
KeywordMatch(T, sub) ==
    LET reason == Lower(Get(sub, "reason", ""))
        d == T.DEFAULT_RESPONSES
        hits == {i \in 1..Len(d) :
                    KeywordFinancialHit(reason, d[i].k) \/ KeywordMedicalHit(reason, d[i].k)}
    IN  IF hits = {} THEN NoMatch
        ELSE LET i == CHOOSE j \in hits : \A k \in hits : j <= k
             IN  Match(d[i].v, IF KeywordFinancialHit(reason, d[i].k)
                               THEN "keyword_financial" ELSE "keyword_medical")

\* lines 303-330: the policy branch, its strategies in order
PolicyMatch(T, sub) ==
    LET name == Get(sub, "name", "")
        byName == NameMatch(T, name)
        byIndex == IndexMatch(T, name)
    IN  IF byName.hit THEN byName
        ELSE IF byIndex.hit THEN byIndex
        ELSE KeywordMatch(T, sub)

\* lines 289-330: what one sub-result of an entry of type rtype resolves to
ResolveSub(T, rtype, sub) ==
    LET name == Get(sub, "name", "")
        byInjection == InjectionMatch(T, rtype, name)
    IN  IF ~SubFails(sub) THEN NoMatch
        ELSE IF byInjection.hit THEN byInjection
        ELSE IF PolicyGate(rtype) THEN PolicyMatch(T, sub)
        ELSE NoMatch

\* lines 288-330: the sub-results of one entry, from the j-th on
RECURSIVE ResolveSubs(_, _, _, _)
ResolveSubs(T, rtype, subs, j) ==
    IF j > Len(subs) THEN NoMatch
    ELSE LET m == ResolveSub(T, rtype, subs[j])
         IN  IF m.hit THEN m ELSE ResolveSubs(T, rtype, subs, j + 1)

\* lines 285-330: the entries of evaluationResults, from the i-th on
RECURSIVE ResolveResults(_, _, _)
ResolveResults(T, results, i) ==
    IF i > Len(results) THEN NoMatch
    ELSE LET result == results[i]
             rtype == Lower(Get(result, "type", ""))
             m == ResolveSubs(T, rtype, Get(result, "results", <<>>), 1)
         IN  IF m.hit THEN m ELSE ResolveResults(T, results, i + 1)

\* _get_block_message(data) read against the globals T
get_block_message(T, data) ==
    LET m == ResolveResults(T, Get(data, "evaluationResults", <<>>), 1)
    IN  IF m.hit THEN m ELSE Match(FALLBACK_DEFAULT, "generic_fallback")

(***************************************************************************)
(* guardrail_webhook.                                                      *)
(***************************************************************************)
\* jsonify({"verdict": True})
AllowVerdict == [verdict |-> TRUE]

\* lines 259-265
BlockVerdict(msg) ==
    [verdict |-> FALSE, data |-> [action |-> "block", revised_response |-> msg]]

\* what Flask answers when a handler lets an exception escape
ServerError == [error |-> 500]

\* AuthFailed without the test "WEBHOOK_SECRET and"
AuthFailed_NoSecretTest(secret, req) ==
    ("Bearer " \o secret) # Get(req.headers, "Authorization", "")

\* lines 198-199: the bearer check fails
AuthFailed(secret, req) ==
    secret # "" /\ ("Bearer " \o secret) # Get(req.headers, "Authorization", "")

\* lines 203-205
Messages(req) ==
    Get(Get(Get(req.json, "request", EmptyDict), "json", EmptyDict), "messages", <<>>)

\* lines 211-217: the text to evaluate, for a non-empty conversation
LastMessage(messages) ==
    LET users == {i \in 1..Len(messages) : Get(messages[i], "role", "") = "user"}
        lastUser == CHOOSE i \in users : \A j \in users : j <= i
        lastMsg == IF users = {} THEN "" ELSE Get(messages[lastUser], "content", "")
    IN  IF lastMsg = "" THEN Get(messages[Len(messages)], "content", "") ELSE lastMsg

\* lines 222-231: the body posted to the evaluator
EvaluatorPayload(T, lastMsg) ==
    [prompt_injections |-> TRUE,
     assertions |-> T.ASSERTIONS,
     assertions_mode |-> "balanced",
     policy_target |-> "both",
     messages |-> <<[role |-> "user", content |-> lastMsg],
                    [role |-> "assistant", content |-> ""]>>]

BLOCK_THRESHOLD == 50

\* IsBlock with "score < 50" for "score <= 50"
IsBlock_Strict(result) ==
    LET status == Lower(Get(result, "status", ""))
    IN  \/ status \in {"fail", "failed"}
        \/ "score" \in DOMAIN result /\ result.score < BLOCK_THRESHOLD

\* line 255: the verdict classifier, on a parsed answer
IsBlock(result) ==
    LET status == Lower(Get(result, "status", ""))
    IN  \/ status \in {"fail", "failed"}
        \/ "score" \in DOMAIN result /\ result.score <= BLOCK_THRESHOLD

\* lines 270-272
OnTimeout == AllowVerdict
\* OnException without the handler "except Exception"
OnException_Unhandled == ServerError

\* lines 273-277
OnException == AllowVerdict
\* lines 246-248
OnHttpError == AllowVerdict

\* lines 243-277: the handler from the evaluator's answer on, read against
\* the globals T: the response, the decision and how the message was matched
AfterEvaluator(T, ev) ==
    IF ev.kind = "timeout"
    THEN [response |-> OnTimeout, decision |-> "fail_open"]
    ELSE IF ev.kind = "exception"
    THEN [response |-> OnException, decision |-> "fail_open"]
    ELSE IF ev.status # 200
    THEN [response |-> OnHttpError, decision |-> "fail_open"]
    ELSE IF ev.body.kind # "object"
    THEN \* resp.json() raised, or result.get raised AttributeError
         [response |-> OnException, decision |-> "fail_open"]
    ELSE IF IsBlock(ev.body.fields)
    THEN LET m == get_block_message(T, ev.body.fields)
         IN  [response |-> BlockVerdict(m.msg), decision |-> "block", match |-> m]
    ELSE [response |-> AllowVerdict, decision |-> "allow"]

\* lines 198-219: the handler up to the evaluator call: the early verdict, or
\* the text it goes on with
BeforeEvaluator(secret, req) ==
    IF AuthFailed(secret, req) THEN [early |-> TRUE, why |-> "auth"]
    ELSE IF Messages(req) = <<>> THEN [early |-> TRUE, why |-> "no_messages"]
    ELSE [early |-> FALSE, lastMsg |-> LastMessage(Messages(req))]

\* guardrail_webhook() run in one piece against the globals T, the evaluator
\* answering ev
guardrail_webhook(T, secret, req, ev) ==
    LET b == BeforeEvaluator(secret, req)
    IN  IF b.early
        THEN [response |-> AllowVerdict, decision |-> b.why, called |-> FALSE]
        ELSE [called |-> TRUE, payload |-> EvaluatorPayload(T, b.lastMsg)]
             @@ AfterEvaluator(T, ev)

(***************************************************************************)
(* Inputs of the /guardrail handler.                                       *)
(***************************************************************************)
\* a record cut down to the fields in S: the other fields are missing
Restrict(r, S) == [k \in S |-> r[k]]
FieldSubsets(r) == {Restrict(r, S) : S \in SUBSET DOMAIN r}

Secrets == {"", "s3cret"}

Headers ==
    { EmptyDict, [Authorization |-> "Bearer s3cret"], [Authorization |-> "Bearer nope"] }

Conversations ==
    { <<>>,
      <<[role |-> "user", content |-> "how do I invest"]>>,
      <<[role |-> "user", content |-> "first"], [role |-> "assistant", content |-> "reply"],
        [role |-> "user", content |-> "second"], [role |-> "assistant", content |-> "ok"]>>,
      <<[role |-> "system", content |-> "be brief"], [role |-> "assistant", content |-> "hello"]>>,
      <<[role |-> "user", content |-> "early"], [role |-> "user", content |-> ""],
        [role |-> "assistant", content |-> "bye"]>>,
      <<[role |-> "user"], [content |-> "no role"]>> }

Bodies ==
    { EmptyDict, [request |-> EmptyDict], [request |-> [json |-> EmptyDict]] }
    \cup { [request |-> [json |-> [messages |-> c]]] : c \in Conversations }

\* sub-results, entries and answers of the evaluator
SubFail1 ==
    [label |-> "fail", score |-> 10, name |-> "assertion_1", reason |-> "investment advice"]
SubFail0 == [label |-> "fail", name |-> "assertion_0", reason |-> "investment advice"]
SubMedical ==
    [label |-> "Unsafe", score |-> 90, name |-> "check 7", reason |-> "Possible DIAGNOSIS given"]
SubDetected == [label |-> "detected"]
SubPass == [label |-> "pass", score |-> 50, name |-> "assertion_2", reason |-> "tax"]
SubOther == [label |-> "true", name |-> "style", reason |-> "too long"]
SubInjectionName == [label |-> "fail", name |-> "Prompt-Injection scan", reason |-> "legal risk"]
SubTwoRuns == [score |-> 20, name |-> "assertion_1_v2"]

EvalSubs ==
    FieldSubsets(SubFail1)
    \cup {SubFail0, SubMedical, SubDetected, SubPass, SubOther, SubInjectionName, SubTwoRuns}

EvalTypes == {"policy_assertion", "prompt_injection", "Toxicity"}

EvalEntries ==
    { [type |-> t, results |-> <<sub>>] : t \in EvalTypes, sub \in EvalSubs }
    \cup { [results |-> <<sub>>] : sub \in {SubFail1, SubDetected} }
    \cup { [type |-> t] : t \in EvalTypes }
    \cup { [type |-> "Policy", results |-> <<SubPass, SubOther, SubMedical>>],
           [type |-> "policy_assertion", results |-> <<>>] }

EvalLists ==
    { <<e>> : e \in EvalEntries }
    \cup { <<>>,
           <<[type |-> "Toxicity", results |-> <<SubOther>>],
             [type |-> "policy_assertion", results |-> <<SubPass, SubMedical>>]>>,
           <<[type |-> "prompt_injection", results |-> <<SubDetected>>],
             [type |-> "policy_assertion", results |-> <<SubFail1>>]>> }

EvalStatuses == {"pass", "fail", "FAILED", "warning"}
EvalScores == {0, 50, 51, 95}

EvalResults ==
    \* every status and score, present or missing
    UNION { FieldSubsets([status |-> st, score |-> sc,
                          evaluationResults |-> <<[type |-> "policy_assertion",
                                                   results |-> <<SubFail1>>]>>]) :
            st \in EvalStatuses, sc \in EvalScores }
    \* every list of entries, under a failing status or a failing score
    \cup { [status |-> "fail", evaluationResults |-> l] : l \in EvalLists }
    \cup { [score |-> 50, evaluationResults |-> <<e>>] :
              e \in { [type |-> "policy_assertion", results |-> <<sub>>] :
                          sub \in FieldSubsets(SubFail1) } }

\* requests.post raised Timeout, raised something else, or an HTTP answer
EvalFailures ==
    { [kind |-> "timeout"], [kind |-> "exception"],
      [kind |-> "http", status |-> 500, body |-> Obj([status |-> "fail"])],
      [kind |-> "http", status |-> 200, body |-> [kind |-> "unparseable"]],
      [kind |-> "http", status |-> 200, body |-> Scalar] }

EvalOutcomes ==
    EvalFailures \cup { [kind |-> "http", status |-> 200, body |-> Obj(r)] : r \in EvalResults }

GoodRequest ==
    [headers |-> [Authorization |-> "Bearer s3cret"],
     json |-> [request |-> [json |-> [messages |->
                  <<[role |-> "user", content |-> "how do I invest"]>>]]]]

EvalPass == [kind |-> "http", status |-> 200, body |-> Obj([status |-> "pass", score |-> 95])]
EvalBlock ==
    [kind |-> "http", status |-> 200,
     body |-> Obj([status |-> "fail",
                   evaluationResults |-> <<[type |-> "policy_assertion",
                                            results |-> <<SubFail1>>]>>])]

\* the calls of /guardrail: a request and what the evaluator would answer
GuardrailCalls ==
    { [req |-> [headers |-> h, json |-> b], ev |-> ev] :
        h \in Headers, b \in Bodies, ev \in {EvalBlock} }
    \cup { [req |-> GoodRequest, ev |-> ev] : ev \in EvalOutcomes }

(***************************************************************************)
(* The handlers as actions.                                                *)
(***************************************************************************)
NoCall == [none |-> TRUE]
NoResponse == [decision |-> "none"]
NoHealth == [status |-> "none"]
LoaderIdle == [pc |-> "idle", runs |-> 0]
RequestIdle == [pc |-> "idle"]

SetGlobals(T) ==
    /\ ASSERTIONS' = T.ASSERTIONS
    /\ DEFAULT_RESPONSES' = T.DEFAULT_RESPONSES
    /\ PROMPT_INJECTION_RESPONSE' = T.PROMPT_INJECTION_RESPONSE
    /\ GUARDRAILS_SOURCE' = T.GUARDRAILS_SOURCE

GlobalsUnchanged ==
    UNCHANGED <<ASSERTIONS, DEFAULT_RESPONSES, PROMPT_INJECTION_RESPONSE, GUARDRAILS_SOURCE>>

\* lines 186-191: what /reload answers
ReloadResponse(T) ==
    [status |-> "reloaded", guardrails_source |-> T.GUARDRAILS_SOURCE,
     assertions |-> Len(T.ASSERTIONS), responses |-> Len(T.DEFAULT_RESPONSES)]

\* one run of load_guardrails on the globals T, as the log keeps it
LoadEntry(T, outcome) ==
    LET r == load_guardrails(T, outcome)
    IN  [outcome |-> outcome, before |-> T, table |-> r.table, raised |-> r.raised]

\* line 338: the load at import, before any request is served
StartupLoads == {LoadEntry(ModuleGlobals, o) : o \in FetchOutcomes}

\* the tables the process can hold after the start-up load and up to n reloads
RECURSIVE TablesAfter(_)
TablesAfter(n) ==
    IF n = 0 THEN {e.table : e \in StartupLoads}
    ELSE LET prev == TablesAfter(n - 1)
         IN  prev \cup {load_guardrails(T, o).table : T \in prev, o \in FetchOutcomes}

\* ---- the loader alone: the start-up load, then /reload calls ----
InitLoader ==
    /\ \E e \in StartupLoads :
          /\ ASSERTIONS = e.table.ASSERTIONS
          /\ DEFAULT_RESPONSES = e.table.DEFAULT_RESPONSES
          /\ PROMPT_INJECTION_RESPONSE = e.table.PROMPT_INJECTION_RESPONSE
          /\ GUARDRAILS_SOURCE = e.table.GUARDRAILS_SOURCE
          /\ loadLog = <<e>>
    /\ WEBHOOK_SECRET = ""
    /\ lastReq = NoCall /\ lastResp = NoResponse /\ healthSeen = NoHealth
    /\ loader = LoaderIdle /\ inflight = RequestIdle

\* reload_guardrails(): POST /reload, handled in one piece
reload_guardrails(outcome) ==
    /\ Len(loadLog) <= MaxReloads
    /\ LET e == LoadEntry(Globals, outcome)
       IN  /\ SetGlobals(e.table)
           /\ loadLog' = Append(loadLog, e @@ [response |->
                  IF e.raised THEN ServerError ELSE ReloadResponse(e.table)])
    /\ UNCHANGED <<WEBHOOK_SECRET, lastReq, lastResp, healthSeen, loader, inflight>>

NextLoader == \E o \in FetchOutcomes : reload_guardrails(o)

SpecLoader == InitLoader /\ [][NextLoader]_vars

\* ---- the /guardrail handler, on every table the loader can leave ----
InitRequests ==
    /\ \E T \in TablesAfter(MaxPriorReloads) :
          /\ ASSERTIONS = T.ASSERTIONS
          /\ DEFAULT_RESPONSES = T.DEFAULT_RESPONSES
          /\ PROMPT_INJECTION_RESPONSE = T.PROMPT_INJECTION_RESPONSE
          /\ GUARDRAILS_SOURCE = T.GUARDRAILS_SOURCE
    /\ WEBHOOK_SECRET \in Secrets
    /\ loadLog = <<>>
    /\ lastReq = NoCall /\ lastResp = NoResponse /\ healthSeen = NoHealth
    /\ loader = LoaderIdle /\ inflight = RequestIdle

\* POST /guardrail, handled in one piece
Guardrail(call) ==
    /\ lastReq = NoCall
    /\ lastReq' = call
    /\ lastResp' = guardrail_webhook(Globals, WEBHOOK_SECRET, call.req, call.ev)
    /\ GlobalsUnchanged
    /\ UNCHANGED <<WEBHOOK_SECRET, loadLog, healthSeen, loader, inflight>>

\* the response is on the wire and the handler has returned
ResponseSent ==
    /\ lastReq # NoCall
    /\ lastReq' = NoCall /\ lastResp' = NoResponse
    /\ GlobalsUnchanged
    /\ UNCHANGED <<WEBHOOK_SECRET, loadLog, healthSeen, loader, inflight>>

NextRequests ==
    \/ \E call \in GuardrailCalls : Guardrail(call)
    \/ ResponseSent

SpecRequests == InitRequests /\ [][NextRequests]_vars

\* ---- /reload running beside /health and /guardrail: the threads of the
\* ---- server interleave between the statements that touch the globals ----
InitConcurrent ==
    /\ \E e \in StartupLoads :
          /\ ASSERTIONS = e.table.ASSERTIONS
          /\ DEFAULT_RESPONSES = e.table.DEFAULT_RESPONSES
          /\ PROMPT_INJECTION_RESPONSE = e.table.PROMPT_INJECTION_RESPONSE
          /\ GUARDRAILS_SOURCE = e.table.GUARDRAILS_SOURCE
    /\ WEBHOOK_SECRET = ""
    /\ loadLog = <<>>
    /\ lastReq = NoCall /\ lastResp = NoResponse /\ healthSeen = NoHealth
    /\ loader = LoaderIdle /\ inflight = RequestIdle

LoaderAt(pc) == [loader EXCEPT !.pc = pc]

\* lines 33-56: the fetch returns or raises; nothing is written yet
ReloadFetch(outcome) ==
    /\ loader.pc = "idle" /\ loader.runs < MaxConcurrentReloads
    /\ loader' =
          [pc |-> IF FetchGivesList(outcome) THEN "loop" ELSE "fallback_source",
           runs |-> loader.runs + 1, outcome |-> outcome, start |-> Globals,
           guardrails |-> IF FetchGivesList(outcome)
                          THEN NormalizeGuardrails(outcome.body) ELSE <<>>,
           idx |-> 1]
    /\ GlobalsUnchanged
    /\ UNCHANGED <<WEBHOOK_SECRET, loadLog, lastReq, lastResp, healthSeen, inflight>>

\* lines 60-104: one turn of the loop writes the globals in place
ReloadLoop ==
    /\ loader.pc = "loop" /\ loader.idx <= Len(loader.guardrails)
    /\ LET r == ProcessGuardrail(Globals, loader.guardrails[loader.idx])
       IN  IF r.raised
           THEN loader' = LoaderAt("fallback_source") /\ GlobalsUnchanged
           ELSE loader' = [loader EXCEPT !.idx = @ + 1] /\ SetGlobals(r.table)
    /\ UNCHANGED <<WEBHOOK_SECRET, loadLog, lastReq, lastResp, healthSeen, inflight>>

\* lines 107-115: after the loop
ReloadCheck ==
    /\ loader.pc = "loop" /\ loader.idx > Len(loader.guardrails)
    /\ IF ASSERTIONS # <<>>
       THEN /\ GUARDRAILS_SOURCE' = "api"
            /\ loader' = LoaderAt("idle")
       ELSE /\ GUARDRAILS_SOURCE' = GUARDRAILS_SOURCE
            /\ loader' = LoaderAt("fallback_source")
    /\ UNCHANGED <<ASSERTIONS, DEFAULT_RESPONSES, PROMPT_INJECTION_RESPONSE>>
    /\ UNCHANGED <<WEBHOOK_SECRET, loadLog, lastReq, lastResp, healthSeen, inflight>>

\* line 128
FallbackSource ==
    /\ loader.pc = "fallback_source"
    /\ GUARDRAILS_SOURCE' = use_fallbacks.GUARDRAILS_SOURCE
    /\ loader' = LoaderAt("fallback_assertions")
    /\ UNCHANGED <<ASSERTIONS, DEFAULT_RESPONSES, PROMPT_INJECTION_RESPONSE>>
    /\ UNCHANGED <<WEBHOOK_SECRET, loadLog, lastReq, lastResp, healthSeen, inflight>>

\* lines 130-133
FallbackAssertions ==
    /\ loader.pc = "fallback_assertions"
    /\ ASSERTIONS' = use_fallbacks.ASSERTIONS
    /\ loader' = LoaderAt("fallback_injection")
    /\ UNCHANGED <<GUARDRAILS_SOURCE, DEFAULT_RESPONSES, PROMPT_INJECTION_RESPONSE>>
    /\ UNCHANGED <<WEBHOOK_SECRET, loadLog, lastReq, lastResp, healthSeen, inflight>>

\* lines 135-139
FallbackInjection ==
    /\ loader.pc = "fallback_injection"
    /\ PROMPT_INJECTION_RESPONSE' = use_fallbacks.PROMPT_INJECTION_RESPONSE
    /\ loader' = LoaderAt("fallback_responses")
    /\ UNCHANGED <<GUARDRAILS_SOURCE, ASSERTIONS, DEFAULT_RESPONSES>>
    /\ UNCHANGED <<WEBHOOK_SECRET, loadLog, lastReq, lastResp, healthSeen, inflight>>

\* lines 141-155, and the return to the caller
FallbackResponses ==
    /\ loader.pc = "fallback_responses"
    /\ DEFAULT_RESPONSES' = use_fallbacks.DEFAULT_RESPONSES
    /\ loader' = LoaderAt("idle")
    /\ UNCHANGED <<GUARDRAILS_SOURCE, ASSERTIONS, PROMPT_INJECTION_RESPONSE>>
    /\ UNCHANGED <<WEBHOOK_SECRET, loadLog, lastReq, lastResp, healthSeen, inflight>>

\* lines 171-179: what /health reports of the globals T
HealthReport(T) ==
    [status |-> "ok", provider |-> "qualifire",
     guardrails_source |-> T.GUARDRAILS_SOURCE,
     assertions_loaded |-> Len(T.ASSERTIONS),
     responses_loaded |-> Len(T.DEFAULT_RESPONSES),
     prompt_injection_response_set |-> T.PROMPT_INJECTION_RESPONSE # ""]

\* GET /health while a reload is running: the report, with the table the
\* reload started from and the one it is building
health ==
    /\ loader.pc # "idle"
    /\ healthSeen' = [report |-> HealthReport(Globals), table |-> Globals,
                      old |-> loader.start,
                      new |-> load_guardrails(loader.start, loader.outcome).table]
    /\ GlobalsUnchanged
    /\ UNCHANGED <<WEBHOOK_SECRET, loadLog, lastReq, lastResp, loader, inflight>>

ConcurrentCalls ==
    { [req |-> GoodRequest, ev |-> ev] :
        ev \in { EvalBlock, EvalPass,
                 [kind |-> "http", status |-> 200,
                  body |-> Obj([status |-> "fail",
                                evaluationResults |-> <<[type |-> "prompt_injection",
                                                         results |-> <<SubDetected>>]>>])] } }

\* lines 196-242: /guardrail up to the evaluator call; the body posted holds
\* ASSERTIONS as it is now
GuardrailSend(call) ==
    /\ inflight.pc = "idle" /\ lastReq = NoCall
    /\ ~BeforeEvaluator(WEBHOOK_SECRET, call.req).early
    /\ inflight' = [pc |-> "waiting", call |-> call, start |-> Globals,
                    payload |-> EvaluatorPayload(Globals,
                                    BeforeEvaluator(WEBHOOK_SECRET, call.req).lastMsg)]
    /\ GlobalsUnchanged
    /\ UNCHANGED <<WEBHOOK_SECRET, loadLog, lastReq, lastResp, healthSeen, loader>>

\* lines 243-277: the evaluator has answered; the message is resolved against
\* the globals as they are now
GuardrailAnswer ==
    /\ inflight.pc = "waiting"
    /\ lastReq' = inflight.call
    /\ lastResp' = [called |-> TRUE, payload |-> inflight.payload,
                    start |-> inflight.start, used |-> Globals]
                   @@ AfterEvaluator(Globals, inflight.call.ev)
    /\ inflight' = RequestIdle
    /\ GlobalsUnchanged
    /\ UNCHANGED <<WEBHOOK_SECRET, loadLog, healthSeen, loader>>

NextConcurrent ==
    \/ \E o \in FetchOutcomes : ReloadFetch(o)
    \/ ReloadLoop
    \/ ReloadCheck
    \/ FallbackSource
    \/ FallbackAssertions
    \/ FallbackInjection
    \/ FallbackResponses
    \/ health
    \/ \E call \in ConcurrentCalls : GuardrailSend(call)
    \/ GuardrailAnswer
    \/ ResponseSent

SpecConcurrent == InitConcurrent /\ [][NextConcurrent]_vars

(***************************************************************************)
(* Properties of the /guardrail handler (SpecRequests).                    *)
(***************************************************************************)
Handled == lastResp # NoResponse
ReachedEvaluator == Handled /\ lastResp.called

\* a verdict object as the webhook's caller expects it
WellFormedVerdict(r) ==
    \/ r = [verdict |-> TRUE]
    \/ /\ DOMAIN r = {"verdict", "data"}
       /\ r.verdict = FALSE
       /\ DOMAIN r.data = {"action", "revised_response"}
       /\ r.data.action = "block"

\* the evaluator call failed: timeout, another exception, a status other
\* than 200, or a body that does not parse
EvaluatorFailed(ev) ==
    \/ ev.kind \in {"timeout", "exception"}
    \/ ev.kind = "http" /\ ev.status # 200
    \/ ev.kind = "http" /\ ev.status = 200 /\ ev.body.kind = "unparseable"

\* the evaluator answered 200 with a JSON object
EvaluatorAnswered(ev) == ev.kind = "http" /\ ev.status = 200 /\ ev.body.kind = "object"

\* C1: every request that reaches the evaluator call ends in a well-formed
\* verdict object, and when the call times out, raises, answers a status other
\* than 200 or a body that does not parse, that verdict is {verdict: true}.
C1_FailOpen ==
    ReachedEvaluator =>
        /\ WellFormedVerdict(lastResp.response)
        /\ EvaluatorFailed(lastReq.ev) => lastResp.response = [verdict |-> TRUE]

\* C1 witness: the evaluator answered 500 with a failing body and the request
\* was allowed
C1_Witness ==
    /\ ReachedEvaluator
    /\ lastReq.ev.kind = "http" /\ lastReq.ev.status = 500
    /\ lastResp.response = [verdict |-> TRUE]

\* the messages the table in force can answer a block with
TableMessages ==
    (DictValues(DEFAULT_RESPONSES) \cup {PROMPT_INJECTION_RESPONSE, FALLBACK_DEFAULT}) \ {""}

\* C2: when the classifier decides block, whatever fields of the evaluator's
\* answer are missing, the response is {verdict: false, data: {action: "block",
\* revised_response: m}} with m one non-empty message of the table in force (a
\* policy's block message, the prompt-injection message) or the generic
\* fallback message; resolution never turns the block into an allow.
C2_BlockYieldsMessage ==
    (ReachedEvaluator /\ EvaluatorAnswered(lastReq.ev) /\ IsBlock(lastReq.ev.body.fields)) =>
        /\ DOMAIN lastResp.response = {"verdict", "data"}
        /\ lastResp.response.verdict = FALSE
        /\ lastResp.response.data.action = "block"
        /\ lastResp.response.data.revised_response \in TableMessages

\* C2 witness: an answer without status, whose only sub-result has no label and
\* no reason, is blocked with a policy's message
C2_Witness ==
    /\ ReachedEvaluator /\ EvaluatorAnswered(lastReq.ev)
    /\ DOMAIN lastReq.ev.body.fields = {"score", "evaluationResults"}
    /\ lastReq.ev.body.fields.evaluationResults =
          <<[type |-> "policy_assertion", results |-> <<[score |-> 10, name |-> "assertion_1"]>>]>>
    /\ lastResp.response.verdict = FALSE
    /\ lastResp.response.data.revised_response \in DictValues(DEFAULT_RESPONSES)

\* C3: the request is blocked exactly when the answer's status, lower-cased,
\* is "fail" or "failed", or its score is present and at most 50.
C3_ClassifierRule ==
    (ReachedEvaluator /\ EvaluatorAnswered(lastReq.ev)) =>
        LET f == lastReq.ev.body.fields
            failingStatus == "status" \in DOMAIN f /\ Lower(f.status) \in {"fail", "failed"}
            failingScore == "score" \in DOMAIN f /\ f.score <= 50
        IN  (lastResp.response # [verdict |-> TRUE]) <=> (failingStatus \/ failingScore)

\* C3 witness: status "pass" with score 50, exactly the threshold, is blocked
C3_Witness ==
    /\ ReachedEvaluator /\ EvaluatorAnswered(lastReq.ev)
    /\ Get(lastReq.ev.body.fields, "status", "") = "pass"
    /\ Get(lastReq.ev.body.fields, "score", 100) = 50
    /\ lastResp.response.verdict = FALSE

(***************************************************************************)
(* Properties of the loader (SpecLoader).  loadLog[1] is the start-up      *)
(* load, the later entries are the /reload calls.                          *)
(***************************************************************************)
Loads == 1..Len(loadLog)

\* the fetch got a 200 answer whose body parses
FetchParsed(o) == o.kind = "http" /\ o.status = 200 /\ o.body.kind # "unparseable"

\* what the payload of a parsed answer yields by itself: the loop run on
\* empty globals
ExtractedAlone(o) == ProcessFrom(ModuleGlobals, NormalizeGuardrails(o.body), 1)

\* the payload holds an entry the loop cannot read
PayloadMalformed(o) == FetchParsed(o) /\ ExtractedAlone(o).raised

\* the fetch failed: transport error or timeout, a status other than 200, a
\* body that does not parse, or an exception while parsing
FetchFailed(o) ==
    \/ o.kind = "exception"
    \/ o.kind = "http" /\ o.status # 200
    \/ o.kind = "http" /\ o.status = 200 /\ o.body.kind = "unparseable"
    \/ PayloadMalformed(o)

\* the payload is read without error and yields no policy
ZeroPolicies(o) ==
    /\ FetchParsed(o) /\ ~ExtractedAlone(o).raised
    /\ ExtractedAlone(o).table.ASSERTIONS = <<>>

\* the payload is read without error and yields a policy that has both its
\* assertion text and its block message
HasValidPolicy(o) ==
    /\ FetchParsed(o) /\ ~ExtractedAlone(o).raised
    /\ ExtractedAlone(o).table.DEFAULT_RESPONSES # <<>>

\* the built-in table, as _use_fallbacks documents it
IsBuiltinTable(T) ==
    /\ T.GUARDRAILS_SOURCE = "fallback"
    /\ T.ASSERTIONS = <<FALLBACK_ASSERTION_0, FALLBACK_ASSERTION_1>>
    /\ T.DEFAULT_RESPONSES = <<[k |-> FALLBACK_ASSERTION_0, v |-> FALLBACK_RESPONSE_0],
                               [k |-> FALLBACK_ASSERTION_1, v |-> FALLBACK_RESPONSE_1]>>
    /\ T.PROMPT_INJECTION_RESPONSE = FALLBACK_PROMPT_INJECTION_RESPONSE

\* the content of a table: everything but the source tag
SameContent(T, U) ==
    /\ T.ASSERTIONS = U.ASSERTIONS
    /\ T.DEFAULT_RESPONSES = U.DEFAULT_RESPONSES
    /\ T.PROMPT_INJECTION_RESPONSE = U.PROMPT_INJECTION_RESPONSE

\* C6: a reload with the payload of the successful load before it, a payload
\* with at least one valid policy, leaves the table as that load left it.
C6_ReloadIdempotent ==
    \A i \in Loads :
        (/\ i > 1
         /\ loadLog[i].outcome = loadLog[i - 1].outcome
         /\ HasValidPolicy(loadLog[i].outcome)
         /\ loadLog[i - 1].table.GUARDRAILS_SOURCE = "api")
        => loadLog[i].table = loadLog[i - 1].table

\* C7: a load whose fetch fails leaves exactly the built-in table, tagged
\* "fallback", whatever the table held before, and raises nothing.
C7_FallbackOnFetchFailure ==
    \A i \in Loads :
        FetchFailed(loadLog[i].outcome) =>
            /\ IsBuiltinTable(loadLog[i].table)
            /\ ~loadLog[i].raised

\* C7 witness: a reload whose payload breaks after a valid entry, run on a
\* table loaded from the API, left the built-in table
C7_Witness ==
    \E i \in Loads :
        /\ i > 1
        /\ loadLog[i - 1].table.GUARDRAILS_SOURCE = "api"
        /\ loadLog[i].outcome.kind = "http" /\ loadLog[i].outcome.status = 200
        /\ loadLog[i].outcome.body = List(<<G_MED, G_BAD>>)
        /\ IsBuiltinTable(loadLog[i].table)

\* C8: a load that fetches successfully and extracts no policy leaves the
\* built-in table tagged "fallback", on a reload as on the first load.
C8_ZeroPoliciesFallback ==
    \A i \in Loads :
        ZeroPolicies(loadLog[i].outcome) => IsBuiltinTable(loadLog[i].table)

\* C9: a table is tagged "api" only if the load that left it extracted a
\* policy with both its assertion text and a non-empty block message.
C9_ApiTagNeedsValidPolicy ==
    \A i \in Loads :
        loadLog[i].table.GUARDRAILS_SOURCE = "api" => HasValidPolicy(loadLog[i].outcome)

\* C10: after a load that succeeded, the table holds exactly what that load's
\* payload yields, in payload order, and nothing of an earlier table.
C10_WholesaleRebuild ==
    \A i \in Loads :
        (HasValidPolicy(loadLog[i].outcome) /\ loadLog[i].table.GUARDRAILS_SOURCE = "api")
        => SameContent(loadLog[i].table, ExtractedAlone(loadLog[i].outcome).table)

\* C19: in every table a load or reload leaves, each assertion (each text
\* sent to the evaluator) has a non-empty block message in DEFAULT_RESPONSES,
\* and no assertion is in the table twice.
C19_TableInvariant ==
    \A i \in Loads :
        LET T == loadLog[i].table
        IN  /\ \A k \in 1..Len(T.ASSERTIONS) :
                  /\ DictHas(T.DEFAULT_RESPONSES, T.ASSERTIONS[k])
                  /\ DictGet(T.DEFAULT_RESPONSES, T.ASSERTIONS[k]) # ""
            /\ \A j, k \in 1..Len(T.ASSERTIONS) :
                  T.ASSERTIONS[j] = T.ASSERTIONS[k] => j = k

(***************************************************************************)
(* Properties of the message resolver (SpecRequests).                      *)
(***************************************************************************)
\* the request was blocked, and the message it was answered with
Blocked == ReachedEvaluator /\ lastResp.decision = "block"
BlockMessage == lastResp.response.data.revised_response

\* the sub-results of the evaluator's answer in the order received, each with
\* the type of the entry it sits in
RECURSIVE SubsInOrder(_)
SubsInOrder(results) ==
    IF results = <<>> THEN <<>>
    ELSE LET subs == Get(Head(results), "results", <<>>)
         IN  [j \in 1..Len(subs) |-> [type |-> Get(Head(results), "type", ""), sub |-> subs[j]]]
             \o SubsInOrder(Tail(results))

ReceivedSubs == SubsInOrder(Get(lastReq.ev.body.fields, "evaluationResults", <<>>))

\* a sub-result looks failing: its label is of the failing vocabulary, or its
\* score is present and below 50
LooksFailing(sub) ==
    \/ "label" \in DOMAIN sub /\ Lower(sub.label) \in {"fail", "unsafe", "detected", "true"}
    \/ "score" \in DOMAIN sub /\ sub.score < 50

IsFailingPair(p) == LooksFailing(p.sub)
FailingSubs == SelectSeq(ReceivedSubs, IsFailingPair)

\* the words of a sub-result's category: its name and its enclosing type
CategoryHas(word, p) ==
    Contains(word, Lower(p.type)) \/ Contains(word, Lower(Get(p.sub, "name", "")))

\* C11: when the first failing sub-result of a blocking answer has
\* "injection" in its enclosing type or in its name, and the table holds a
\* prompt-injection message, the request is answered with that message,
\* whatever the policies of the table and whatever the name or reason match.
C11_InjectionShortCircuit ==
    (Blocked /\ FailingSubs # <<>> /\ CategoryHas("injection", FailingSubs[1])
     /\ PROMPT_INJECTION_RESPONSE # "")
    => BlockMessage = PROMPT_INJECTION_RESPONSE

\* C11 witness: a failing sub-result named "Prompt-Injection scan" under a
\* policy entry, whose reason hits the keywords of a policy of the table, is
\* answered with the prompt-injection message
C11_Witness ==
    /\ Blocked
    /\ Get(lastReq.ev.body.fields, "evaluationResults", <<>>) =
          <<[type |-> "policy_assertion", results |-> <<SubInjectionName>>]>>
    /\ KeywordMatch(Globals, SubInjectionName).hit
    /\ PROMPT_INJECTION_RESPONSE # ""
    /\ BlockMessage = PROMPT_INJECTION_RESPONSE
    /\ BlockMessage \notin DictValues(DEFAULT_RESPONSES)

\* the three category words the resolver knows
CategoryWords == {"policy", "assertion", "injection"}

\* C12: when every failing sub-result of a blocking answer has none of
\* "policy", "assertion", "injection" in its name or in its enclosing type,
\* the request is answered with the generic fallback message, also when the
\* reason of such a sub-result holds a keyword of a policy of the table.
C12_GateBeforeKeywords ==
    (Blocked /\ FailingSubs # <<>>
     /\ \A i \in 1..Len(FailingSubs) :
            \A w \in CategoryWords : ~CategoryHas(w, FailingSubs[i]))
    => BlockMessage = FALLBACK_DEFAULT

\* C12 witness: a failing sub-result "check 7" under type "Toxicity" whose
\* reason holds "diagnos", against a table with a medical policy, is answered
\* with the generic fallback message
C12_Witness ==
    /\ Blocked
    /\ Get(lastReq.ev.body.fields, "evaluationResults", <<>>) =
          <<[type |-> "Toxicity", results |-> <<SubMedical>>]>>
    /\ KeywordMatch(Globals, SubMedical).hit
    /\ KeywordMatch(Globals, SubMedical).source = "keyword_medical"
    /\ BlockMessage = FALLBACK_DEFAULT

\* the failing sub-results are all policy-type by their enclosing type, none
\* is injection-like, and no strategy matches any of them to a policy
PolicyTypeUnmatched ==
    /\ FailingSubs # <<>>
    /\ \A i \in 1..Len(FailingSubs) :
          /\ ~CategoryHas("injection", FailingSubs[i])
          /\ PolicyGate(Lower(FailingSubs[i].type))
          /\ ~PolicyMatch(Globals, FailingSubs[i].sub).hit

\* C13: a failing sub-result that passes the policy-type gate and that no
\* strategy (name, index, keywords) matches is answered with the block
\* message of the first policy of the table, not the generic fallback.
C13_CategoryFallback ==
    (Blocked /\ PolicyTypeUnmatched
     /\ ASSERTIONS # <<>> /\ DictHas(DEFAULT_RESPONSES, ASSERTIONS[1]))
    => BlockMessage = DictGet(DEFAULT_RESPONSES, ASSERTIONS[1])

\* the blocking answer of the scenario, against the built-in table
AssertionZeroCase ==
    /\ Blocked
    /\ IsBuiltinTable(Globals)
    /\ lastReq.ev.body.fields =
          [status |-> "fail",
           evaluationResults |-> <<[type |-> "policy_assertion", results |-> <<SubFail0>>]>>]

\* C14 as stated: the answer is the financial message, matched by name or by
\* positional index.
C14_MatchByNameOrIndex ==
    AssertionZeroCase =>
        /\ BlockMessage = FALLBACK_RESPONSE_0
        /\ lastResp.match.source \in
              {"assertion_name_match", "assertion_prefix_match", "assertion_index"}

\* C14: with the built-in table, the failing sub-result named "assertion_0"
\* with reason "investment advice" under type "policy_assertion" is answered
\* with the financial policy's message, matched by the keywords of its reason.
C14_MatchByKeyword ==
    AssertionZeroCase =>
        /\ BlockMessage = FALLBACK_RESPONSE_0
        /\ lastResp.match.source = "keyword_financial"

\* C14 witness: the scenario's answer was handled against the built-in table,
\* and neither the name nor the index strategy matched
C14_Witness ==
    /\ AssertionZeroCase
    /\ ~NameMatch(Globals, SubFail0.name).hit
    /\ ~IndexMatch(Globals, SubFail0.name).hit
    /\ BlockMessage = FALLBACK_RESPONSE_0

(***************************************************************************)
(* Properties of the handler before the evaluator call (SpecRequests).     *)
(***************************************************************************)
\* the conversation of the request handled, and the text sent for evaluation
Conversation == Messages(lastReq.req)
EvaluatedText == lastResp.payload.messages[1].content

\* the turns of role "user", and the content of the last of them
UserTurns == {i \in 1..Len(Conversation) : Get(Conversation[i], "role", "") = "user"}
LastUserContent ==
    LET i == CHOOSE u \in UserTurns : \A v \in UserTurns : v <= u
    IN  Get(Conversation[i], "content", "")
LastTurnContent == Get(Conversation[Len(Conversation)], "content", "")

\* C15: a request with an empty conversation is allowed without a call of
\* the evaluator; otherwise the text evaluated is the content of the last
\* turn of role "user", whatever it is, and with no such turn the content of
\* the last turn.
C15_LastUserTurn ==
    (Handled /\ lastResp.decision # "auth") =>
        IF Conversation = <<>>
        THEN ~lastResp.called /\ lastResp.response = [verdict |-> TRUE]
        ELSE /\ lastResp.called
             /\ EvaluatedText = IF UserTurns # {} THEN LastUserContent ELSE LastTurnContent

\* the Authorization header of the request handled is missing or is not
\* "Bearer <secret>"
BadCredential ==
    \/ "Authorization" \notin DOMAIN lastReq.req.headers
    \/ lastReq.req.headers.Authorization # "Bearer " \o WEBHOOK_SECRET

\* C16: with a secret configured, a request whose Authorization header is
\* missing or is not "Bearer <secret>" is answered {verdict: true} and the
\* evaluator is not called; with no secret configured no request is answered
\* by the auth check, and every request with a conversation reaches the
\* evaluator.
C16_AuthFailOpen ==
    Handled =>
        /\ (WEBHOOK_SECRET # "" /\ BadCredential) =>
               (lastResp.response = [verdict |-> TRUE] /\ ~lastResp.called)
        /\ WEBHOOK_SECRET = "" =>
               (lastResp.decision # "auth" /\ (Conversation # <<>> => lastResp.called))

\* C16 witness: with the secret configured, a request with the wrong bearer
\* token, which the evaluator would have blocked, is allowed without a call
C16_Witness ==
    /\ Handled
    /\ WEBHOOK_SECRET = "s3cret"
    /\ lastReq.req.headers = [Authorization |-> "Bearer nope"]
    /\ Conversation # <<>>
    /\ lastReq.ev = EvalBlock
    /\ lastResp.response = [verdict |-> TRUE]
    /\ ~lastResp.called

(***************************************************************************)
(* Properties of the policy strategies (SpecRequests).                     *)
(***************************************************************************)
\* the first run of digits of s, "" when it has none
FirstDigitRun(s) ==
    LET digitAt == {i \in 1..Len(s) : SubSeq(s, i, i) \in DOMAIN DigitValue}
        a == CHOOSE i \in digitAt : \A j \in digitAt : i <= j
        b == CHOOSE i \in digitAt :
                /\ \A j \in a..i : j \in digitAt
                /\ (i + 1) \notin digitAt
                /\ i >= a
                /\ \A k \in digitAt : (k >= a /\ k < i) => (k + 1) \in digitAt
    IN  IF digitAt = {} THEN "" ELSE SubSeq(s, a, b)

\* the one-based position the first run of digits of the name denotes, when
\* it is the position of a policy with a block message
PositionOf(name) == ParseInt(FirstDigitRun(name))
ValidPosition(name) ==
    /\ FirstDigitRun(name) # ""
    /\ PositionOf(name) \in 1..Len(ASSERTIONS)
    /\ DictHas(DEFAULT_RESPONSES, ASSERTIONS[PositionOf(name)])

\* the only failing sub-result of the answer is policy-type by its enclosing
\* type, not injection-like, and matches no policy by its name
OneUnnamedPolicyFailure ==
    /\ Len(FailingSubs) = 1
    /\ ~CategoryHas("injection", FailingSubs[1])
    /\ PolicyGate(Lower(FailingSubs[1].type))
    /\ ~NameMatch(Globals, Get(FailingSubs[1].sub, "name", "")).hit

\* C17: for a failing policy-type sub-result that no policy matched by name,
\* the first run of digits of its name, read one-based into ASSERTIONS,
\* selects the policy whose message is returned; when it selects none (no
\* digits, out of range, no message) the keyword strategy decides.
C17_IndexFromFirstDigitRun ==
    (Blocked /\ OneUnnamedPolicyFailure) =>
        LET sub == FailingSubs[1].sub
            name == Get(sub, "name", "")
            byKeyword == KeywordMatch(Globals, sub)
        IN  BlockMessage =
                IF ValidPosition(name)
                THEN DictGet(DEFAULT_RESPONSES, ASSERTIONS[PositionOf(name)])
                ELSE IF byKeyword.hit THEN byKeyword.msg ELSE FALLBACK_DEFAULT

\* C18: a failing sub-result whose enclosing type or whose name contains
\* "assertion" or "policy" goes through the policy strategies: when it is the
\* first failing one and a strategy matches it, the answer is that match.
C18_GateOnTypeOrName ==
    (Blocked /\ FailingSubs # <<>>
     /\ ~CategoryHas("injection", FailingSubs[1])
     /\ (CategoryHas("assertion", FailingSubs[1]) \/ CategoryHas("policy", FailingSubs[1]))
     /\ PolicyMatch(Globals, FailingSubs[1].sub).hit)
    => BlockMessage = PolicyMatch(Globals, FailingSubs[1].sub).msg

\* the failing sub-results, in the order received, that the cascade matches
CascadeHits ==
    {i \in 1..Len(FailingSubs) :
        ResolveSub(Globals, Lower(FailingSubs[i].type), FailingSubs[i].sub).hit}

\* C20: a blocked request is answered with the match of the earliest failing
\* sub-result, in the order received, that the cascade matches, and with the
\* generic fallback when it matches none; a sub-result that does not look
\* failing has no part in it.
C20_EarliestFailingMatch ==
    Blocked =>
        IF CascadeHits = {} THEN BlockMessage = FALLBACK_DEFAULT
        ELSE LET i == CHOOSE h \in CascadeHits : \A k \in CascadeHits : h <= k
             IN  BlockMessage =
                    ResolveSub(Globals, Lower(FailingSubs[i].type), FailingSubs[i].sub).msg

\* C20 witness: the first failing sub-result falls through, the next
\* sub-result does not look failing though the policy strategies would match
\* it to another message, and the answer is the match of the third
C20_Witness ==
    /\ Blocked
    /\ Get(lastReq.ev.body.fields, "evaluationResults", <<>>) =
          <<[type |-> "Toxicity", results |-> <<SubOther>>],
            [type |-> "policy_assertion", results |-> <<SubPass, SubMedical>>]>>
    /\ Len(FailingSubs) = 2
    /\ ~ResolveSub(Globals, "toxicity", SubOther).hit
    /\ PolicyMatch(Globals, SubPass).hit
    /\ PolicyMatch(Globals, SubPass).msg # BlockMessage
    /\ KeywordMatch(Globals, SubMedical).hit
    /\ BlockMessage = KeywordMatch(Globals, SubMedical).msg

(***************************************************************************)
(* Properties of a reload beside its readers (SpecConcurrent).             *)
(***************************************************************************)
\* the loader run step by step, alone, ends where load_guardrails ends
StepwiseLoadAgrees ==
    (loader.pc = "idle" /\ loader.runs > 0) =>
        Globals = load_guardrails(loader.start, loader.outcome).table

\* C4: what a reader sees while a reload runs is the complete table the
\* reload started from or the complete table it ends with.
C4_AtomicSwap ==
    healthSeen # NoHealth =>
        healthSeen.report \in {HealthReport(healthSeen.old), HealthReport(healthSeen.new)}

\* C5: a request blocked after a reload went by resolved its message on the
\* content of the table it started on, the table whose assertions it sent.
C5_RequestSnapshot ==
    (Handled /\ lastResp.called /\ lastResp.decision = "block") =>
        /\ lastResp.payload.assertions = lastResp.start.ASSERTIONS
        /\ SameContent(lastResp.used, lastResp.start)

====
